---------------------------- MODULE Spec2Model ----------------------------
(***************************************************************************)
(* Transport framing layer of DVBridge: TcpReceiver (src/unnamed/part_000) *)
(* and UdpReceiver (src/src/udp_receiver.cpp), driven by one Config        *)
(* (src/include/config.hpp).  One receiver object is alive per behaviour;  *)
(* Config::protocol selects its class.  The operating system is modelled   *)
(* by a table of socket handles; the peer by the bytes it has written to   *)
(* the connection (TCP) or by the datagram that arrives at each recvfrom   *)
(* (UDP).  receiveFrame is split at its blocking receive calls: one step   *)
(* enters the call, one step per recv/recvfrom runs the code up to the     *)
(* next blocking receive or to the return.                                 *)
(***************************************************************************)
EXTENDS Integers, Sequences, FiniteSets, TLC

VARIABLES
    config,              \* Config, immutable after construction
    tcp,                 \* TcpReceiver members
    udp,                 \* UdpReceiver members
    other,               \* a second receiver object of the same class (moves)
    unpacker,            \* FrameUnpacker: the last unpack call, its batch and result
    alive,               \* the receiver object has not been destroyed
    buffer,              \* the caller's std::vector<uint8_t>
    entry,               \* history: buffer as the receiveFrame call in flight found it
    pc,                  \* position of the in-flight receiveFrame call
    frame_size,          \* local of receiveFrame (0 outside a call)
    total_received,      \* local of receiveExact (0 outside a call)
    header_frame_size,   \* local uint32_t of receiveFrame, as its 4 bytes in memory
    last,                \* operation that returned last, and its return value
    os,                  \* socket handles: created, open, close() calls per handle
    wire,                \* TCP: bytes written by the peer and not yet received
    peerClosed,          \* TCP: the peer has closed its end
    sent,                \* bytes sent to the receiver since it was constructed
    rx,                  \* history: bytes received by the receiveFrame call in flight or, at
                         \* its successful return, by that call
    receives,            \* history: recv/recvfrom calls made by the receiveFrame call in
                         \* flight or, once it returned, by the last call that made any
    dgrams               \* history: datagrams received since bind, as recvfrom returned them

vars == <<config, tcp, udp, other, unpacker, alive, buffer, entry, pc, frame_size, total_received,
          header_frame_size, last, os, wire, peerClosed, sent, rx, receives,
          dgrams>>

-----------------------------------------------------------------------------
(* Bounds of the model *)

MaxSockets == 2      \* socket() succeeds at most this many times
MaxStream == 10     \* bytes sent to the receiver in one behaviour
MaxWire == 4         \* bytes the peer may have in flight
MaxFrames == 3       \* receiveFrame is entered while fewer frames are counted
MaxDgram == 4        \* largest datagram the network delivers

(* Program constants *)

INVALID_SOCK == -1
HEADER_SANITY_LIMIT == 100000000

Min(a, b) == IF a < b THEN a ELSE b

HeaderValues == {0, 1, 99999999, 100000000}
Geometries == {<<4, 4>>, <<8, 1>>, <<2, 2>>}
HeaderSizes == {4}
UdpPacketSizes == {3}
CameraIps == {"0.0.0.0", "10.0.0.7", "not-an-ip"}

-----------------------------------------------------------------------------
(* Config *)

pixels_per_channel(cfg) == cfg.width * cfg.height
bytes_per_channel(cfg) == pixels_per_channel(cfg) \div 8
ConfigFrameSize(cfg) == 2 * bytes_per_channel(cfg)

\* The configurations explored: every geometry without a header and with the
\* wildcard address, two geometries with a header (TcpReceiver: a frame size of 2
\* and one of 0) and one with a specific valid address (UdpReceiver).  has_header
\* is read by TcpReceiver only, and "0.0.0.0" differs from another valid address
\* for UdpReceiver only.
Configs ==
    { c \in [protocol : {"TCP", "UDP"}, width : {g[1] : g \in Geometries},
             height : {g[2] : g \in Geometries}, has_header : BOOLEAN,
             header_size : HeaderSizes, camera_ip : CameraIps,
             udp_packet_size : UdpPacketSizes] :
        /\ <<c.width, c.height>> \in Geometries
        /\ c.protocol = "TCP" => c.camera_ip # "0.0.0.0"
        /\ c.protocol = "UDP" => ~c.has_header
        /\ c.has_header => <<c.width, c.height>> \in {<<8, 1>>, <<2, 2>>}
        /\ (c.camera_ip = "10.0.0.7" /\ c.protocol = "UDP")
              => (<<c.width, c.height>> = <<8, 1>>) }

\* inet_pton(AF_INET, ip) > 0
InetPtonOk(ip) == ip \in {"0.0.0.0", "10.0.0.7"}

-----------------------------------------------------------------------------
(* std::vector<uint8_t>: size and the explicit prefix data; every element  *)
(* at an index >= Len(data) is 0.  data never ends in 0.  overrun records  *)
(* that bytes were stored beyond size (undefined behaviour).               *)

RECURSIVE Canon(_)
Canon(s) == IF s # <<>> /\ s[Len(s)] = 0 THEN Canon(SubSeq(s, 1, Len(s) - 1)) ELSE s

EmptyVector == [size |-> 0, data |-> <<>>, overrun |-> FALSE]

ByteAt(b, i) == IF i < Len(b.data) THEN b.data[i + 1] ELSE 0

Contents(b) == [i \in 1..b.size |-> ByteAt(b, i - 1)]

\* a resize that does nothing (faulty variant)
NoResize(b, n) == b

\* vector::resize(n): keeps the first min(size, n) elements, zero-fills the rest
Resize(b, n) ==
    [b EXCEPT !.size = n, !.data = Canon(SubSeq(b.data, 1, Min(Len(b.data), n)))]

\* bytes stored at b.data(), whatever the offset (faulty variant)
WriteAtStart(b, off, bytes) ==
    [b EXCEPT !.data = Canon(bytes \o SubSeq(b.data, Len(bytes) + 1, Len(b.data))),
              !.overrun = @ \/ Len(bytes) > b.size]

\* bytes stored at b.data() + off
WriteAt(b, off, bytes) ==
    LET n == IF Len(b.data) > off + Len(bytes) THEN Len(b.data) ELSE off + Len(bytes)
    IN  [b EXCEPT !.data = Canon([i \in 1..n |->
                     IF i > off /\ i <= off + Len(bytes) THEN bytes[i - off]
                     ELSE IF i <= Len(b.data) THEN b.data[i] ELSE 0]),
                  !.overrun = @ \/ off + Len(bytes) > b.size]

-----------------------------------------------------------------------------
(* The uint32_t header variable as 4 bytes of little-endian memory.  Bytes   *)
(* stored at an offset of 4 or more lie outside the variable (undefined     *)
(* behaviour): they are kept as elements 5.. of the word.                   *)

ZeroWord == <<0, 0, 0, 0>>

StoreBytes(word, off, bytes) ==
    LET n == IF off + Len(bytes) > Len(word) THEN off + Len(bytes) ELSE Len(word)
    IN  [i \in 1..n |-> IF i > off /\ i <= off + Len(bytes) THEN bytes[i - off]
                        ELSE IF i <= Len(word) THEN word[i] ELSE 0]

\* the bytes stored beyond the variable, as the value of the memory they fill
Overrun(word) ==
    LET b(i) == IF i <= Len(word) THEN word[i] ELSE 0
    IN  b(5) + 256 * b(6) + 65536 * b(7) + 16777216 * (b(8) % 128)

\* the value of the word when it is below 2^31 (the integers of TLC are
\* 32-bit signed; a word with top byte >= 128 is compared without being computed)
LoadUint32(word) == word[1] + 256 * word[2] + 65536 * word[3] + 16777216 * word[4]

Uint32Positive(word) == \E i \in 1..4 : word[i] # 0

Uint32Less(word, limit) == word[4] < 128 /\ LoadUint32(word) < limit

\* the peer's encoding of a length into n header bytes
RECURSIVE LittleEndian(_, _)
LittleEndian(v, n) == IF n = 0 THEN <<>> ELSE <<v % 256>> \o LittleEndian(v \div 256, n - 1)

-----------------------------------------------------------------------------
(* Operating system: socket(), close() *)

OsInit == [created |-> 0, open |-> {}, closes |-> [h \in 1..(MaxSockets + 1) |-> 0]]

OsSocket(o) == [o EXCEPT !.created = @ + 1, !.open = @ \cup {o.created + 1}]

OsClose(o, h) == [o EXCEPT !.open = @ \ {h}, !.closes[h] = @ + 1]

-----------------------------------------------------------------------------
\* TcpReceiver::TcpReceiver(const Config&)
FreshTcp == [socket_ |-> INVALID_SOCK, connected_ |-> FALSE,
             total_bytes_received_ |-> 0, total_frames_received_ |-> 0]

\* UdpReceiver::UdpReceiver(const Config&)
FreshUdp == [socket_ |-> INVALID_SOCK, bound_ |-> FALSE, accumulated_bytes_ |-> 0,
             total_bytes_received_ |-> 0, total_frames_received_ |-> 0]

\* unpack has not been called: the caller's batch is empty
NoUnpack ==
    [frame_data |-> <<>>, frame_number |-> 0, stale |-> FALSE, events |-> <<>>,
     ret |-> 0, reads |-> {}, called |-> FALSE]

\* no second object has been constructed
NoOther == [alive |-> FALSE, tcp |-> FreshTcp, udp |-> FreshUdp]

Init ==
    /\ config \in Configs
    /\ tcp = FreshTcp
    /\ udp = FreshUdp
    /\ other = NoOther
    /\ unpacker = NoUnpack
    /\ alive = TRUE
    /\ buffer = EmptyVector
    /\ entry = EmptyVector
    /\ pc = "idle"
    /\ frame_size = 0
    /\ total_received = 0
    /\ header_frame_size = ZeroWord
    /\ last = [op |-> "none", ret |-> TRUE]
    /\ os = OsInit
    /\ wire = <<>>
    /\ peerClosed = FALSE
    /\ sent = 0
    /\ rx = <<>>
    /\ receives = 0
    /\ dgrams = <<>>


-----------------------------------------------------------------------------
(* Parts shared by the two receivers *)

Returned(op, ret) == [op |-> op, ret |-> ret]

\* a disconnect() that closes nothing (faulty variant)
ReleaseNothing(o, sock) == o

\* disconnect(): close(socket_) when socket_ != INVALID_SOCK
CloseIfValid(o, sock) == IF sock # INVALID_SOCK THEN OsClose(o, sock) ELSE o

\* outcomes the system calls of connect() can have: socket() fails, inet_pton
\* or ::connect / bind fails, all succeed
ConnectOutcomes == {"socket_failed", "setup_failed", "ok"}

\* The receivers never inspect a payload byte, so the payload sent to them is
\* fixed by its position in the stream: every byte differs from every other
\* one, and a byte skipped, repeated or misplaced shows.
PayloadByte(i) == 1 + (i % 255)

-----------------------------------------------------------------------------
(* TcpReceiver *)

\* a disconnect() that keeps the handle in socket_ (faulty variant)
TcpMarkedDisconnected(t) == [t EXCEPT !.connected_ = FALSE]

\* TcpReceiver::disconnect, effect on the members
TcpDisconnected(t) == [t EXCEPT !.socket_ = INVALID_SOCK, !.connected_ = FALSE]

\* a successful connect() that keeps the counters of the previous connection
\* (faulty variant)
TcpConnectedKeepingCounters(t, h) == [t EXCEPT !.socket_ = h, !.connected_ = TRUE]

\* the members after a successful ::connect
TcpConnected(t, h) ==
    [t EXCEPT !.socket_ = h, !.connected_ = TRUE,
              !.total_bytes_received_ = 0, !.total_frames_received_ = 0]

\* connect() past the already-connected test
TcpOpen ==
    \E outcome \in ConnectOutcomes :
        IF outcome = "socket_failed" \/ os.created >= MaxSockets
        THEN /\ outcome = "socket_failed"
             /\ tcp' = [tcp EXCEPT !.socket_ = INVALID_SOCK]
             /\ last' = Returned("connect", FALSE)
             /\ UNCHANGED <<os, wire, peerClosed, rx, receives>>
        ELSE LET h == os.created + 1
                 o1 == OsSocket(os)
                 t1 == [tcp EXCEPT !.socket_ = h]
             IN  IF ~InetPtonOk(config.camera_ip) \/ outcome = "setup_failed"
                 THEN /\ tcp' = TcpDisconnected(t1)
                      /\ os' = CloseIfValid(o1, t1.socket_)
                      /\ last' = Returned("connect", FALSE)
                      /\ UNCHANGED <<wire, peerClosed, rx, receives>>
                 ELSE /\ tcp' = TcpConnected(t1, h)
                      /\ os' = o1
                      /\ last' = Returned("connect", TRUE)
                      /\ wire' = <<>> /\ peerClosed' = FALSE /\ rx' = <<>> /\ receives' = 0

\* a test that never finds the receiver connected (faulty variant)
NeverConnected(t) == FALSE

\* connect() lines 83-86
AlreadyConnected(t) == t.connected_

TcpConnect ==
    /\ alive /\ config.protocol = "TCP" /\ pc = "idle"
    /\ IF AlreadyConnected(tcp)
       THEN /\ last' = Returned("connect", TRUE)
            /\ UNCHANGED <<tcp, os, wire, peerClosed, rx, receives>>
       ELSE TcpOpen
    /\ UNCHANGED <<config, unpacker, other, udp, alive, buffer, entry, pc, frame_size,
                   total_received, header_frame_size, sent, dgrams>>

\* closing the socket discards the connection: its unread bytes are gone
TcpDisconnect ==
    /\ alive /\ config.protocol = "TCP" /\ pc = "idle"
    /\ os' = CloseIfValid(os, tcp.socket_)
    /\ tcp' = TcpDisconnected(tcp)
    /\ last' = Returned("disconnect", TRUE)
    /\ IF tcp.socket_ # INVALID_SOCK
       THEN wire' = <<>> /\ peerClosed' = FALSE /\ rx' = <<>> /\ receives' = 0
       ELSE UNCHANGED <<wire, peerClosed, rx, receives>>
    /\ UNCHANGED <<config, unpacker, other, udp, alive, buffer, entry, pc, frame_size,
                   total_received, header_frame_size, sent, dgrams>>

\* a sanity test that accepts the limit itself (faulty variant)
EffectiveFrameSizeInclusive(word, configured) ==
    IF Uint32Positive(word) /\ Uint32Less(word, HEADER_SANITY_LIMIT + 1)
    THEN LoadUint32(word) ELSE configured

\* receiveFrame lines 200-203: the length the payload read uses
EffectiveFrameSize(word, configured) ==
    IF Uint32Positive(word) /\ Uint32Less(word, HEADER_SANITY_LIMIT)
    THEN LoadUint32(word) ELSE configured

\* the lengths the payload read can use after the header read: the one of lines
\* 200-203, and, when the header read stored bytes beyond header_frame_size, also
\* the one that results when those bytes landed on the local frame_size
HeaderOutcomes(word, configured) ==
    {EffectiveFrameSize(word, configured)}
    \cup (IF Len(word) > 4 THEN {EffectiveFrameSize(word, Overrun(word))} ELSE {})

\* receiveFrame returns: its locals are gone
TcpReturn(t, ret) ==
    /\ tcp' = t
    /\ pc' = "idle"
    /\ frame_size' = 0
    /\ total_received' = 0
    /\ header_frame_size' = ZeroWord
    /\ entry' = EmptyVector
    /\ last' = Returned("receiveFrame", ret)

\* receiveFrame lines 210-224 up to the first blocking recv of the payload:
\* resize, then receiveExact(buffer.data(), fs), which returns at once for fs = 0
TcpBeginPayload(t, word, fs) ==
    /\ buffer' = Resize(buffer, fs)
    /\ IF fs = 0
       THEN TcpReturn([t EXCEPT !.total_frames_received_ = @ + 1], TRUE)
       ELSE /\ tcp' = t
            /\ pc' = "payload"
            /\ frame_size' = fs
            /\ total_received' = 0
            /\ header_frame_size' = word
            /\ entry' = buffer
            /\ last' = last

\* a rejection that comes after the buffer was resized (faulty variant)
TcpRejectedAfterResize ==
    /\ last' = Returned("receiveFrame", FALSE)
    /\ buffer' = Resize(buffer, ConfigFrameSize(config))
    /\ UNCHANGED <<tcp, entry, pc, frame_size, total_received, header_frame_size, rx, receives>>

\* receiveFrame lines 185-188
TcpRejected ==
    /\ last' = Returned("receiveFrame", FALSE)
    /\ UNCHANGED <<tcp, buffer, entry, pc, frame_size, total_received,
                   header_frame_size, rx, receives>>

\* a frame size that follows the length of the last frame read (faulty variant)
RememberedFrameSize == IF buffer.size > 0 THEN buffer.size ELSE ConfigFrameSize(config)

\* TcpReceiver::getFrameSize, UdpReceiver::getFrameSize
getFrameSize == ConfigFrameSize(config)

TcpReceiveFrame ==
    /\ alive /\ config.protocol = "TCP" /\ pc = "idle"
    /\ tcp.total_frames_received_ < MaxFrames
    /\ IF ~tcp.connected_
       THEN TcpRejected
       ELSE /\ rx' = <<>> /\ receives' = 0
            /\ IF config.has_header /\ config.header_size > 0
               THEN /\ frame_size' = getFrameSize
                    /\ header_frame_size' = ZeroWord
                    /\ total_received' = 0
                    /\ pc' = "header"
                    /\ entry' = buffer
                    /\ UNCHANGED <<tcp, buffer, last>>
               ELSE TcpBeginPayload(tcp, ZeroWord, getFrameSize)
    /\ UNCHANGED <<config, unpacker, other, udp, alive, os, wire, peerClosed, sent, dgrams>>

\* what one recv(socket_, p, request, 0) can return: the next bytes of the
\* stream, 0 once the peer has closed and the stream is drained, or an error (the
\* connection is then broken and what was in flight is lost)
TcpRecvResults(request) ==
    IF tcp.socket_ \notin os.open
    THEN {[received |-> -1, data |-> <<>>]}
    ELSE {[received |-> k, data |-> SubSeq(wire, 1, k)] : k \in 1..Min(request, Len(wire))}
         \cup (IF wire = <<>> /\ peerClosed THEN {[received |-> 0, data |-> <<>>]} ELSE {})
         \cup {[received |-> -1, data |-> <<>>]}

\* a recv that is asked for the whole length each time (faulty variant)
RecvRequestWhole(size, received) == size

\* receiveExact line 163: the length asked of recv
RecvRequest(size, received) == size - received

\* receiveExact lines 166-178 for the result r of one recv, and the code that
\* follows the loop when it ends, up to the next blocking recv or the return of
\* receiveFrame; t is the receiver's members when recv returns
TcpRecvReturns(t, r) ==
    LET size == IF pc = "header" THEN config.header_size ELSE frame_size
    IN  IF r.received <= 0
        THEN /\ TcpReturn([t EXCEPT !.connected_ = FALSE], FALSE)
             /\ rx' = <<>>
             /\ receives' = receives + 1
             /\ UNCHANGED buffer
        ELSE LET got == total_received + r.received
                 t1 == [t EXCEPT !.total_bytes_received_ = @ + r.received]
             IN  /\ rx' = rx \o r.data
                 /\ receives' = receives + 1
                 /\ IF pc = "header"
                    THEN LET word == StoreBytes(header_frame_size, total_received, r.data)
                         IN  IF got < size
                             THEN /\ header_frame_size' = word
                                  /\ total_received' = got
                                  /\ tcp' = t1
                                  /\ UNCHANGED <<buffer, entry, pc, frame_size, last>>
                             ELSE \E fs \in HeaderOutcomes(word, frame_size) :
                                      TcpBeginPayload(t1, word, fs)
                    ELSE /\ buffer' = WriteAt(buffer, total_received, r.data)
                         /\ IF got < size
                            THEN /\ total_received' = got
                                 /\ tcp' = t1
                                 /\ UNCHANGED <<entry, pc, last, frame_size,
                                                header_frame_size>>
                            ELSE TcpReturn([t1 EXCEPT !.total_frames_received_ = @ + 1],
                                           TRUE)

\* the length the recv in flight was asked for
TcpRequest ==
    RecvRequest(IF pc = "header" THEN config.header_size ELSE frame_size, total_received)

\* one iteration of the loop of receiveExact
TcpRecv ==
    /\ alive /\ config.protocol = "TCP" /\ pc \in {"header", "payload"}
    /\ \E r \in TcpRecvResults(TcpRequest) :
        /\ TcpRecvReturns(tcp, r)
        /\ IF r.received < 0
           THEN wire' = <<>> /\ peerClosed' = TRUE
           ELSE wire' = SubSeq(wire, r.received + 1, Len(wire)) /\ UNCHANGED peerClosed
    /\ UNCHANGED <<config, unpacker, other, udp, alive, os, sent, dgrams>>

\* what the peer can write in one send
PeerMessages ==
    {<<PayloadByte(sent)>>}
    \cup (IF config.has_header
          THEN {LittleEndian(h, config.header_size) : h \in HeaderValues}
               \cup {[i \in 1..config.header_size |-> 255]}
          ELSE {})

PeerWrite ==
    /\ config.protocol = "TCP" /\ tcp.connected_ /\ ~peerClosed
    /\ \E m \in PeerMessages :
        /\ Len(wire) + Len(m) <= MaxWire
        /\ sent + Len(m) <= MaxStream
        /\ wire' = wire \o m
        /\ sent' = sent + Len(m)
    /\ UNCHANGED <<config, unpacker, other, tcp, udp, alive, buffer, entry, pc, frame_size,
                   total_received, header_frame_size, last, os, peerClosed, rx, receives, dgrams>>

PeerClose ==
    /\ config.protocol = "TCP" /\ tcp.connected_ /\ ~peerClosed
    /\ peerClosed' = TRUE
    /\ UNCHANGED <<config, unpacker, other, tcp, udp, alive, buffer, entry, pc, frame_size,
                   total_received, header_frame_size, last, os, wire, sent, rx, receives, dgrams>>

\* ~TcpReceiver
TcpDestroy ==
    /\ alive /\ config.protocol = "TCP" /\ pc = "idle"
    /\ os' = CloseIfValid(os, tcp.socket_)
    /\ tcp' = TcpDisconnected(tcp)
    /\ alive' = FALSE
    /\ last' = Returned("destroy", TRUE)
    /\ wire' = <<>> /\ peerClosed' = FALSE /\ rx' = <<>> /\ receives' = 0
    /\ UNCHANGED <<config, unpacker, other, udp, buffer, entry, pc, frame_size, total_received,
                   header_frame_size, sent, dgrams>>

-----------------------------------------------------------------------------
(* UdpReceiver *)

\* UdpReceiver::disconnect, effect on the members
UdpDisconnected(u) ==
    [u EXCEPT !.socket_ = INVALID_SOCK, !.bound_ = FALSE, !.accumulated_bytes_ = 0]

\* the members after a successful bind
UdpBound(u, h) ==
    [u EXCEPT !.socket_ = h, !.bound_ = TRUE, !.total_bytes_received_ = 0,
              !.total_frames_received_ = 0, !.accumulated_bytes_ = 0]

\* connect() lines 128-136: the address is parsed unless it is empty or "0.0.0.0"
UdpAddressOk(ip) == ip = "" \/ ip = "0.0.0.0" \/ InetPtonOk(ip)

\* connect() past the already-bound test
UdpOpen ==
    \E outcome \in ConnectOutcomes :
        IF outcome = "socket_failed" \/ os.created >= MaxSockets
        THEN /\ outcome = "socket_failed"
             /\ udp' = [udp EXCEPT !.socket_ = INVALID_SOCK]
             /\ last' = Returned("connect", FALSE)
             /\ UNCHANGED <<os, dgrams, rx, receives>>
        ELSE LET h == os.created + 1
                 o1 == OsSocket(os)
                 u1 == [udp EXCEPT !.socket_ = h]
             IN  IF ~UdpAddressOk(config.camera_ip) \/ outcome = "setup_failed"
                 THEN /\ udp' = UdpDisconnected(u1)
                      /\ os' = CloseIfValid(o1, u1.socket_)
                      /\ last' = Returned("connect", FALSE)
                      /\ UNCHANGED <<dgrams, rx, receives>>
                 ELSE /\ udp' = UdpBound(u1, h)
                      /\ os' = o1
                      /\ last' = Returned("connect", TRUE)
                      /\ dgrams' = <<>> /\ rx' = <<>> /\ receives' = 0

UdpConnect ==
    /\ alive /\ config.protocol = "UDP" /\ pc = "idle"
    /\ IF udp.bound_
       THEN /\ last' = Returned("connect", TRUE)
            /\ UNCHANGED <<udp, os, dgrams, rx, receives>>
       ELSE UdpOpen
    /\ UNCHANGED <<config, unpacker, other, tcp, alive, buffer, entry, pc, frame_size,
                   total_received, header_frame_size, wire, peerClosed, sent>>

UdpDisconnect ==
    /\ alive /\ config.protocol = "UDP" /\ pc = "idle"
    /\ os' = CloseIfValid(os, udp.socket_)
    /\ udp' = UdpDisconnected(udp)
    /\ last' = Returned("disconnect", TRUE)
    /\ IF udp.socket_ # INVALID_SOCK
       THEN dgrams' = <<>> /\ rx' = <<>> /\ receives' = 0
       ELSE UNCHANGED <<dgrams, rx, receives>>
    /\ UNCHANGED <<config, unpacker, other, tcp, alive, buffer, entry, pc, frame_size,
                   total_received, header_frame_size, wire, peerClosed, sent>>

\* receiveFrame returns: its local is gone
UdpReturn(u, ret) ==
    /\ udp' = u
    /\ pc' = "idle"
    /\ frame_size' = 0
    /\ entry' = EmptyVector
    /\ last' = Returned("receiveFrame", ret)

\* a completed frame that is not counted (faulty variant)
UdpFrameNotCounted(u) == u

\* receiveFrame lines 239-246
UdpFrameComplete(u) == [u EXCEPT !.total_frames_received_ = @ + 1]

UdpReceiveFrame ==
    /\ alive /\ config.protocol = "UDP" /\ pc = "idle"
    /\ udp.total_frames_received_ < MaxFrames
    /\ IF ~udp.bound_
       THEN /\ last' = Returned("receiveFrame", FALSE)
            /\ UNCHANGED <<udp, buffer, entry, pc, frame_size, rx, receives>>
       ELSE LET fs == getFrameSize
                u1 == [udp EXCEPT !.accumulated_bytes_ = 0]
            IN  /\ buffer' = Resize(buffer, fs)
                /\ rx' = <<>>
                /\ receives' = 0
                /\ IF u1.accumulated_bytes_ < fs
                   THEN /\ udp' = u1
                        /\ pc' = "recvfrom"
                        /\ frame_size' = fs
                        /\ entry' = buffer
                        /\ last' = last
                   ELSE UdpReturn(UdpFrameComplete(u1), TRUE)
    /\ UNCHANGED <<config, unpacker, other, tcp, alive, total_received, header_frame_size, os, wire,
                   peerClosed, sent, dgrams>>

\* the datagram of n bytes that arrives next
Datagram(n) == [i \in 1..n |-> PayloadByte(sent + i - 1)]

\* what one recvfrom(socket_, packet_buffer_.data(), packet_buffer_.size(), ...) can
\* return: a datagram cut to the size of packet_buffer_, or an error
UdpRecvResults ==
    IF udp.socket_ \notin os.open
    THEN {[received |-> -1, data |-> <<>>, sent |-> 0]}
    ELSE {[received |-> Min(n, config.udp_packet_size),
           data |-> SubSeq(Datagram(n), 1, Min(n, config.udp_packet_size)),
           sent |-> n] : n \in {m \in 0..MaxDgram : sent + m <= MaxStream}}
         \cup {[received |-> -1, data |-> <<>>, sent |-> 0]}

\* a copy of the whole datagram (faulty variant)
BytesReceived(needed, received) == received

\* a byte counter that counts what was copied (faulty variant)
BytesCopied(received, copied) == copied

\* line 220: total_bytes_received_ += received
BytesCounted(received, copied) == received

\* a datagram of which nothing is used (faulty variant)
BytesNoneCopied(needed, received) == 0

\* lines 214-215
BytesToCopy(needed, received) == Min(needed, received)

\* receiveFrame lines 203-246 for the result r of one recvfrom; u is the
\* receiver's members when recvfrom returns
UdpRecvReturns(u, r) ==
    IF r.received <= 0
    THEN /\ UdpReturn([u EXCEPT !.bound_ = FALSE], FALSE)
         /\ dgrams' = IF r.received = 0 THEN Append(dgrams, r.data) ELSE dgrams
         /\ rx' = <<>>
         /\ receives' = receives + 1
         /\ UNCHANGED buffer
    ELSE LET bytes_needed == frame_size - u.accumulated_bytes_
             bytes_to_copy == BytesToCopy(bytes_needed, r.received)
             u1 == [u EXCEPT !.accumulated_bytes_ = @ + bytes_to_copy,
                             !.total_bytes_received_ =
                                 @ + BytesCounted(r.received, bytes_to_copy)]
         IN  /\ buffer' = WriteAt(buffer, u.accumulated_bytes_,
                                  SubSeq(r.data, 1, bytes_to_copy))
             /\ rx' = rx \o r.data
             /\ receives' = receives + 1
             /\ dgrams' = Append(dgrams, r.data)
             /\ IF u1.accumulated_bytes_ < frame_size
                THEN udp' = u1 /\ UNCHANGED <<entry, pc, last, frame_size>>
                ELSE UdpReturn(UdpFrameComplete(u1), TRUE)

\* one iteration of the loop of receiveFrame
UdpRecv ==
    /\ alive /\ config.protocol = "UDP" /\ pc = "recvfrom"
    /\ \E r \in UdpRecvResults :
        /\ sent' = sent + r.sent
        /\ UdpRecvReturns(udp, r)
    /\ UNCHANGED <<config, unpacker, other, tcp, alive, total_received, header_frame_size,
                   os, wire, peerClosed>>

\* ~UdpReceiver
UdpDestroy ==
    /\ alive /\ config.protocol = "UDP" /\ pc = "idle"
    /\ os' = CloseIfValid(os, udp.socket_)
    /\ udp' = UdpDisconnected(udp)
    /\ alive' = FALSE
    /\ last' = Returned("destroy", TRUE)
    /\ dgrams' = <<>> /\ rx' = <<>> /\ receives' = 0
    /\ UNCHANGED <<config, unpacker, other, tcp, buffer, entry, pc, frame_size, total_received,
                   header_frame_size, wire, peerClosed, sent>>

-----------------------------------------------------------------------------
(* Moves between two receiver objects of one class.  The second object is  *)
(* `other`; it comes to hold a socket only by a move.                      *)

\* a moved-from TcpReceiver that keeps its handle (faulty variant)
TcpMovedFromKeepingSocket(t) == [t EXCEPT !.connected_ = FALSE]

\* TcpReceiver(TcpReceiver&&) / operator=(TcpReceiver&&): what is left in the source
TcpMovedFrom(t) == [t EXCEPT !.socket_ = INVALID_SOCK, !.connected_ = FALSE]

\* ... and what the destination takes: socket_, connected_ and both counters
TcpMovedInto(dst, src) ==
    [dst EXCEPT !.socket_ = src.socket_, !.connected_ = src.connected_,
                !.total_bytes_received_ = src.total_bytes_received_,
                !.total_frames_received_ = src.total_frames_received_]

\* UdpReceiver(UdpReceiver&&) / operator=(UdpReceiver&&): what is left in the source
UdpMovedFrom(u) == [u EXCEPT !.socket_ = INVALID_SOCK, !.bound_ = FALSE]

UdpMovedInto(dst, src) ==
    [dst EXCEPT !.socket_ = src.socket_, !.bound_ = src.bound_,
                !.accumulated_bytes_ = src.accumulated_bytes_,
                !.total_bytes_received_ = src.total_bytes_received_,
                !.total_frames_received_ = src.total_frames_received_]

\* TcpReceiver other(std::move(receiver))
TcpMoveConstruct ==
    /\ alive /\ config.protocol = "TCP" /\ pc = "idle" /\ ~other.alive
    /\ other' = [other EXCEPT !.alive = TRUE, !.tcp = TcpMovedInto(FreshTcp, tcp)]
    /\ tcp' = TcpMovedFrom(tcp)
    /\ last' = Returned("move_construct", TRUE)
    /\ UNCHANGED <<config, unpacker, udp, alive, buffer, entry, pc, frame_size, total_received,
                   header_frame_size, os, wire, peerClosed, sent, rx, receives, dgrams>>

\* other = std::move(receiver)
TcpMoveAssign ==
    /\ alive /\ config.protocol = "TCP" /\ pc = "idle" /\ other.alive
    /\ os' = CloseIfValid(os, other.tcp.socket_)
    /\ other' = [other EXCEPT !.tcp = TcpMovedInto(TcpDisconnected(other.tcp), tcp)]
    /\ tcp' = TcpMovedFrom(tcp)
    /\ last' = Returned("move_assign", TRUE)
    /\ UNCHANGED <<config, unpacker, udp, alive, buffer, entry, pc, frame_size, total_received,
                   header_frame_size, wire, peerClosed, sent, rx, receives, dgrams>>

\* receiver = std::move(other)
TcpMoveAssignBack ==
    /\ alive /\ config.protocol = "TCP" /\ pc = "idle" /\ other.alive
    /\ os' = CloseIfValid(os, tcp.socket_)
    /\ tcp' = TcpMovedInto(TcpDisconnected(tcp), other.tcp)
    /\ other' = [other EXCEPT !.tcp = TcpMovedFrom(other.tcp)]
    /\ last' = Returned("move_assign_back", TRUE)
    /\ UNCHANGED <<config, unpacker, udp, alive, buffer, entry, pc, frame_size, total_received,
                   header_frame_size, wire, peerClosed, sent, rx, receives, dgrams>>

\* receiver = std::move(receiver): this == &other, nothing is done
TcpMoveAssignSelf ==
    /\ alive /\ config.protocol = "TCP" /\ pc = "idle"
    /\ last' = Returned("move_assign_self", TRUE)
    /\ UNCHANGED <<config, unpacker, tcp, udp, other, alive, buffer, entry, pc, frame_size,
                   total_received, header_frame_size, os, wire, peerClosed, sent, rx, receives,
                   dgrams>>

\* other.disconnect()
TcpOtherDisconnect ==
    /\ config.protocol = "TCP" /\ pc = "idle" /\ other.alive
    /\ os' = CloseIfValid(os, other.tcp.socket_)
    /\ other' = [other EXCEPT !.tcp = TcpDisconnected(other.tcp)]
    /\ last' = Returned("other_disconnect", TRUE)
    /\ UNCHANGED <<config, unpacker, tcp, udp, alive, buffer, entry, pc, frame_size,
                   total_received, header_frame_size, wire, peerClosed, sent, rx, receives, dgrams>>

\* other.~TcpReceiver()
TcpOtherDestroy ==
    /\ config.protocol = "TCP" /\ pc = "idle" /\ other.alive
    /\ os' = CloseIfValid(os, other.tcp.socket_)
    /\ other' = [other EXCEPT !.alive = FALSE, !.tcp = TcpDisconnected(other.tcp)]
    /\ last' = Returned("other_destroy", TRUE)
    /\ UNCHANGED <<config, unpacker, tcp, udp, alive, buffer, entry, pc, frame_size,
                   total_received, header_frame_size, wire, peerClosed, sent, rx, receives, dgrams>>

\* UdpReceiver other(std::move(receiver))
UdpMoveConstruct ==
    /\ alive /\ config.protocol = "UDP" /\ pc = "idle" /\ ~other.alive
    /\ other' = [other EXCEPT !.alive = TRUE, !.udp = UdpMovedInto(FreshUdp, udp)]
    /\ udp' = UdpMovedFrom(udp)
    /\ last' = Returned("move_construct", TRUE)
    /\ UNCHANGED <<config, unpacker, tcp, alive, buffer, entry, pc, frame_size, total_received,
                   header_frame_size, os, wire, peerClosed, sent, rx, receives, dgrams>>

\* other = std::move(receiver)
UdpMoveAssign ==
    /\ alive /\ config.protocol = "UDP" /\ pc = "idle" /\ other.alive
    /\ os' = CloseIfValid(os, other.udp.socket_)
    /\ other' = [other EXCEPT !.udp = UdpMovedInto(UdpDisconnected(other.udp), udp)]
    /\ udp' = UdpMovedFrom(udp)
    /\ last' = Returned("move_assign", TRUE)
    /\ UNCHANGED <<config, unpacker, tcp, alive, buffer, entry, pc, frame_size, total_received,
                   header_frame_size, wire, peerClosed, sent, rx, receives, dgrams>>

\* receiver = std::move(other)
UdpMoveAssignBack ==
    /\ alive /\ config.protocol = "UDP" /\ pc = "idle" /\ other.alive
    /\ os' = CloseIfValid(os, udp.socket_)
    /\ udp' = UdpMovedInto(UdpDisconnected(udp), other.udp)
    /\ other' = [other EXCEPT !.udp = UdpMovedFrom(other.udp)]
    /\ last' = Returned("move_assign_back", TRUE)
    /\ UNCHANGED <<config, unpacker, tcp, alive, buffer, entry, pc, frame_size, total_received,
                   header_frame_size, wire, peerClosed, sent, rx, receives, dgrams>>

\* receiver = std::move(receiver)
UdpMoveAssignSelf ==
    /\ alive /\ config.protocol = "UDP" /\ pc = "idle"
    /\ last' = Returned("move_assign_self", TRUE)
    /\ UNCHANGED <<config, unpacker, tcp, udp, other, alive, buffer, entry, pc, frame_size,
                   total_received, header_frame_size, os, wire, peerClosed, sent, rx, receives,
                   dgrams>>

\* other.disconnect()
UdpOtherDisconnect ==
    /\ config.protocol = "UDP" /\ pc = "idle" /\ other.alive
    /\ os' = CloseIfValid(os, other.udp.socket_)
    /\ other' = [other EXCEPT !.udp = UdpDisconnected(other.udp)]
    /\ last' = Returned("other_disconnect", TRUE)
    /\ UNCHANGED <<config, unpacker, tcp, udp, alive, buffer, entry, pc, frame_size,
                   total_received, header_frame_size, wire, peerClosed, sent, rx, receives, dgrams>>

\* other.~UdpReceiver()
UdpOtherDestroy ==
    /\ config.protocol = "UDP" /\ pc = "idle" /\ other.alive
    /\ os' = CloseIfValid(os, other.udp.socket_)
    /\ other' = [other EXCEPT !.alive = FALSE, !.udp = UdpDisconnected(other.udp)]
    /\ last' = Returned("other_destroy", TRUE)
    /\ UNCHANGED <<config, unpacker, tcp, udp, alive, buffer, entry, pc, frame_size,
                   total_received, header_frame_size, wire, peerClosed, sent, rx, receives, dgrams>>

\* The configurations of the move specification: one geometry, no header
MoveConfigs ==
    {c \in Configs : c.width = 8 /\ ~c.has_header /\ c.camera_ip = "10.0.0.7"}

\* the datagram of two bytes that starts at stream position i
Datagram2(i) == <<PayloadByte(i), PayloadByte(i + 1)>>

\* The receiver as two delivered frames of two bytes leave it (a state Spec reaches)
ServedTwoFrames ==
    /\ buffer = [size |-> 2, data |-> <<PayloadByte(2), PayloadByte(3)>>, overrun |-> FALSE]
    /\ last = Returned("receiveFrame", TRUE)
    /\ os = OsSocket(OsInit)
    /\ sent = 4
    /\ rx = <<PayloadByte(2), PayloadByte(3)>>
    /\ receives = 1
    /\ IF config.protocol = "TCP"
       THEN /\ tcp = [TcpConnected(FreshTcp, 1) EXCEPT !.total_bytes_received_ = 4,
                                                      !.total_frames_received_ = 2]
            /\ udp = FreshUdp
            /\ dgrams = <<>>
       ELSE /\ tcp = FreshTcp
            /\ udp = [UdpBound(FreshUdp, 1) EXCEPT !.total_bytes_received_ = 4,
                                                  !.total_frames_received_ = 2,
                                                  !.accumulated_bytes_ = 2]
            /\ dgrams = <<Datagram2(0), Datagram2(2)>>

\* a receiver just constructed, or one that has delivered two frames
InitMove ==
    /\ config \in MoveConfigs
    /\ other = NoOther
    /\ unpacker = NoUnpack
    /\ alive = TRUE
    /\ entry = EmptyVector
    /\ pc = "idle"
    /\ frame_size = 0
    /\ total_received = 0
    /\ header_frame_size = ZeroWord
    /\ wire = <<>>
    /\ peerClosed = FALSE
    /\ \/ /\ tcp = FreshTcp /\ udp = FreshUdp
          /\ buffer = EmptyVector
          /\ last = [op |-> "none", ret |-> TRUE]
          /\ os = OsInit
          /\ sent = 0
          /\ rx = <<>>
          /\ receives = 0
          /\ dgrams = <<>>
       \/ ServedTwoFrames

NextMove ==
    \/ TcpConnect
    \/ TcpDisconnect
    \/ TcpDestroy
    \/ TcpMoveConstruct
    \/ TcpMoveAssign
    \/ TcpMoveAssignBack
    \/ TcpMoveAssignSelf
    \/ TcpOtherDisconnect
    \/ TcpOtherDestroy
    \/ UdpConnect
    \/ UdpDisconnect
    \/ UdpDestroy
    \/ UdpMoveConstruct
    \/ UdpMoveAssign
    \/ UdpMoveAssignBack
    \/ UdpMoveAssignSelf
    \/ UdpOtherDisconnect
    \/ UdpOtherDestroy

SpecMove == InitMove /\ [][NextMove]_vars

-----------------------------------------------------------------------------
Next ==
    \/ TcpConnect
    \/ TcpDisconnect
    \/ TcpReceiveFrame
    \/ TcpRecv
    \/ PeerWrite
    \/ PeerClose
    \/ TcpDestroy
    \/ UdpConnect
    \/ UdpDisconnect
    \/ UdpReceiveFrame
    \/ UdpRecv
    \/ UdpDestroy

Spec == Init /\ [][Next]_vars

-----------------------------------------------------------------------------
(* disconnect() called from a second execution context while receiveFrame   *)
(* is in flight.  The classes hold no lock and no atomic member, so the      *)
(* call can run between any two steps of receiveFrame.  Two placements are   *)
(* modelled: while recv is still blocked, and between the return of recv     *)
(* and the code of receiveFrame that follows it.                             *)

TcpDisconnectDuringRecv ==
    /\ alive /\ config.protocol = "TCP" /\ pc \in {"header", "payload"}
    /\ os' = CloseIfValid(os, tcp.socket_)
    /\ wire' = <<>> /\ peerClosed' = FALSE
    /\ \/ /\ tcp' = TcpDisconnected(tcp)
          /\ UNCHANGED <<buffer, entry, pc, frame_size, total_received,
                         header_frame_size, last, rx, receives>>
       \/ /\ tcp.socket_ \in os.open
          /\ \E k \in 1..Min(TcpRequest, Len(wire)) :
                TcpRecvReturns(TcpDisconnected(tcp),
                               [received |-> k, data |-> SubSeq(wire, 1, k)])
    /\ UNCHANGED <<config, unpacker, other, udp, alive, sent, dgrams>>

UdpDisconnectDuringRecv ==
    /\ alive /\ config.protocol = "UDP" /\ pc = "recvfrom"
    /\ os' = CloseIfValid(os, udp.socket_)
    /\ \/ /\ udp' = UdpDisconnected(udp)
          /\ UNCHANGED <<buffer, entry, pc, frame_size, last, rx, receives, dgrams, sent>>
       \/ \E r \in {q \in UdpRecvResults : q.received > 0} :
             /\ sent' = sent + r.sent
             /\ UdpRecvReturns(UdpDisconnected(udp), r)
    /\ UNCHANGED <<config, unpacker, other, tcp, alive, total_received, header_frame_size,
                   wire, peerClosed>>

NextConcurrent ==
    \/ Next
    \/ TcpDisconnectDuringRecv
    \/ UdpDisconnectDuringRecv

SpecConcurrent == Init /\ [][NextConcurrent]_vars

-----------------------------------------------------------------------------
(* FrameUnpacker.  frame_unpacker.cpp is not among the sources: the class is *)
(* modelled from its declaration (frame_unpacker.hpp), from the layout flags *)
(* of Config and from the design's description of unpack.                    *)

UnpackGeometries == {<<4, 2>>, <<2, 4>>, <<4, 4>>}
FrameIntervals == {200}
FrameNumbers == {0, 3}

\* Config as FrameUnpacker reads it
UnpackConfigs ==
    { c \in [width : {g[1] : g \in UnpackGeometries},
             height : {g[2] : g \in UnpackGeometries},
             msb_first : BOOLEAN, positive_first : BOOLEAN, row_major : BOOLEAN,
             frame_interval_us : FrameIntervals] :
        <<c.width, c.height>> \in UnpackGeometries }

\* the elements of a set of integers in increasing order
Ascending(S) ==
    [i \in 1..Cardinality(S) |-> CHOOSE x \in S : Cardinality({y \in S : y < x}) = i - 1]

\* bit b (0 = least significant) of the byte v
BitSet(v, b) == (v \div (2 ^ b)) % 2 = 1

\* the place of bit b among the pixels of its byte: bit 0 is the first pixel, or
\* bit 7 is when msb_first
PixelOffset(cfg, b) == IF cfg.msb_first THEN 7 - b ELSE b

\* bit_positions_[v]: the pixel offsets of the set bits of v, first pixel first
bit_positions_(cfg, v) == Ascending({PixelOffset(cfg, b) : b \in {k \in 0..7 : BitSet(v, k)}})

\* bit_counts_[v]
bit_counts_(v) == Cardinality({b \in 0..7 : BitSet(v, b)})

\* byte_to_base_x_[i], byte_to_base_y_[i]: the pixel the first bit of byte i maps to
byte_to_base_x_(cfg, i) == IF cfg.row_major THEN (8 * i) % cfg.width ELSE (8 * i) \div cfg.height

byte_to_base_y_(cfg, i) == IF cfg.row_major THEN (8 * i) \div cfg.width ELSE (8 * i) % cfg.height

\* a coordinate that runs past the end of the row or column (faulty variant)
CoordinateUnwrapped(cfg, i, offset) ==
    IF cfg.row_major
    THEN [x |-> byte_to_base_x_(cfg, i) + offset, y |-> byte_to_base_y_(cfg, i)]
    ELSE [x |-> byte_to_base_x_(cfg, i), y |-> byte_to_base_y_(cfg, i) + offset]

\* base coordinate plus bit offset: the bit advances x and wraps to the next row
\* every width pixels, or advances y and wraps to the next column every height
Coordinate(cfg, i, offset) ==
    IF cfg.row_major
    THEN LET along == byte_to_base_x_(cfg, i) + offset
         IN  [x |-> along % cfg.width, y |-> byte_to_base_y_(cfg, i) + along \div cfg.width]
    ELSE LET along == byte_to_base_y_(cfg, i) + offset
         IN  [x |-> byte_to_base_x_(cfg, i) + along \div cfg.height, y |-> along % cfg.height]

\* the events of one byte of a channel
ByteEvents(cfg, i, v, timestamp, polarity) ==
    LET positions == bit_positions_(cfg, v)
    IN  [k \in 1..bit_counts_(v) |->
            [timestamp |-> timestamp,
             x |-> Coordinate(cfg, i, positions[k]).x,
             y |-> Coordinate(cfg, i, positions[k]).y,
             polarity |-> polarity]]

RECURSIVE ChannelEvents(_, _, _, _, _)
\* the events of bytes i.. of a channel
ChannelEvents(cfg, channel_data, timestamp, polarity, i) ==
    IF i >= Len(channel_data)
    THEN <<>>
    ELSE ByteEvents(cfg, i, channel_data[i + 1], timestamp, polarity)
         \o ChannelEvents(cfg, channel_data, timestamp, polarity, i + 1)

\* unpackChannelFast
unpackChannelFast(cfg, channel_data, timestamp, polarity) ==
    ChannelEvents(cfg, channel_data, timestamp, polarity, 0)

\* a time stamp that does not scale with the frame interval (faulty variant)
FrameNumberAsTimestamp(cfg, frame_number) == frame_number

\* the time stamp shared by the events of a frame
Timestamp(cfg, frame_number) == frame_number * cfg.frame_interval_us

\* an unpack that appends to the batch it is given (faulty variant)
BatchKept(events) == events

\* unpack: "events ... will be cleared first"
BatchCleared(events) == <<>>

\* an unpack that decodes whatever part of the channels it is given (faulty variant)
NeverTooShort(cfg, data_size) == FALSE

\* unpack: the buffer is shorter than the frame
TooShort(cfg, data_size) == data_size < ConfigFrameSize(cfg)

\* the state unpack leaves: its arguments (stale: the batch held events when
\* the call found it), the batch, the count returned and the indices of
\* frame_data that were read
Called(frame_data, frame_number, given, cleared, decoded, reads) ==
    [frame_data |-> frame_data, frame_number |-> frame_number, stale |-> given # <<>>,
     events |-> cleared \o decoded, ret |-> Len(decoded), reads |-> reads,
     called |-> TRUE]

\* unpack(frame_data, frame_number, events)
Unpacked(cfg, frame_data, frame_number, events) ==
    LET n == bytes_per_channel(cfg)
        timestamp == Timestamp(cfg, frame_number)
    IN  IF TooShort(cfg, Len(frame_data))
        THEN Called(frame_data, frame_number, events, BatchCleared(events), <<>>, {})
        ELSE Called(frame_data, frame_number, events, BatchCleared(events),
                    unpackChannelFast(cfg, SubSeq(frame_data, 1, Min(n, Len(frame_data))),
                                      timestamp, cfg.positive_first)
                    \o unpackChannelFast(cfg, SubSeq(frame_data, n + 1,
                                                     Min(2 * n, Len(frame_data))),
                                         timestamp, ~cfg.positive_first),
                    0..(Min(2 * n, Len(frame_data)) - 1))

\* The frames handed to unpack are built by the encoder below from sets of
\* pixels: it is written from the comments of Config's layout flags alone.

\* the place of pixel (x, y) in the scan of its channel
ScanIndex(cfg, px) ==
    IF cfg.row_major THEN px.y * cfg.width + px.x ELSE px.x * cfg.height + px.y

Grid(cfg) == [x : 0..(cfg.width - 1), y : 0..(cfg.height - 1)]

\* the value of byte i of a channel in which exactly the pixels of S are set
EncodedByte(cfg, S, i) ==
    LET bit(b) == \E px \in S : /\ ScanIndex(cfg, px) \div 8 = i
                                /\ ScanIndex(cfg, px) % 8 = PixelOffset(cfg, b)
        weight(b) == IF bit(b) THEN 2 ^ b ELSE 0
    IN  weight(0) + weight(1) + weight(2) + weight(3)
        + weight(4) + weight(5) + weight(6) + weight(7)

EncodeChannel(cfg, S) == [i \in 1..bytes_per_channel(cfg) |-> EncodedByte(cfg, S, i - 1)]

\* the frame of the positive pixels P and the negative pixels N
Encode(cfg, P, N) ==
    IF cfg.positive_first
    THEN EncodeChannel(cfg, P) \o EncodeChannel(cfg, N)
    ELSE EncodeChannel(cfg, N) \o EncodeChannel(cfg, P)

\* sets of pixels of one channel: none, each one, all
PixelSets(cfg) == {{}, Grid(cfg)} \cup {{px} : px \in Grid(cfg)}

\* ... and of the other channel: the last pixel of the grid
FewPixelSets(cfg) == {{[x |-> cfg.width - 1, y |-> cfg.height - 1]}}

\* the buffers handed to unpack: frames of the configured length, a frame with
\* a byte more, and buffers cut short
UnpackFrames(cfg) ==
    LET whole == {Encode(cfg, P, N) : P \in PixelSets(cfg), N \in FewPixelSets(cfg)}
                 \cup {Encode(cfg, P, N) : P \in FewPixelSets(cfg), N \in PixelSets(cfg)}
        ones == Encode(cfg, Grid(cfg), Grid(cfg))
    IN  whole
        \cup {ones, Encode(cfg, {}, {}), Append(ones, 255)}
        \cup {SubSeq(ones, 1, k) : k \in 0..(Len(ones) - 1)}

\* the same, laid out once for every configuration
UnpackInputs == [cfg \in UnpackConfigs |-> UnpackFrames(cfg)]

InitUnpack ==
    /\ config \in UnpackConfigs
    /\ tcp = FreshTcp
    /\ udp = FreshUdp
    /\ other = NoOther
    /\ unpacker = NoUnpack
    /\ alive = TRUE
    /\ buffer = EmptyVector
    /\ entry = EmptyVector
    /\ pc = "idle"
    /\ frame_size = 0
    /\ total_received = 0
    /\ header_frame_size = ZeroWord
    /\ last = [op |-> "none", ret |-> TRUE]
    /\ os = OsInit
    /\ wire = <<>>
    /\ peerClosed = FALSE
    /\ sent = 0
    /\ rx = <<>>
    /\ receives = 0
    /\ dgrams = <<>>

\* unpack(frame_data, frame_number, events) on the batch the last call left
Unpack ==
    /\ \E frame_data \in UnpackInputs[config], frame_number \in FrameNumbers :
          unpacker' = Unpacked(config, frame_data, frame_number, unpacker.events)
    /\ UNCHANGED <<config, tcp, udp, other, alive, buffer, entry, pc, frame_size,
                   total_received, header_frame_size, last, os, wire, peerClosed, sent,
                   rx, receives, dgrams>>

NextUnpack == Unpack

SpecUnpack == InitUnpack /\ [][NextUnpack]_vars

-----------------------------------------------------------------------------
(* TcpReceiver with header sizes other than 4 *)

OtherHeaderSizes == {2, 6}
MaxHeaderStream == 7

HeaderConfigs ==
    [protocol : {"TCP"}, width : {8}, height : {1}, has_header : {TRUE},
     header_size : OtherHeaderSizes, camera_ip : {"10.0.0.7"},
     udp_packet_size : UdpPacketSizes]

InitHeader ==
    /\ config \in HeaderConfigs
    /\ tcp = FreshTcp
    /\ udp = FreshUdp
    /\ other = NoOther
    /\ unpacker = NoUnpack
    /\ alive = TRUE
    /\ buffer = EmptyVector
    /\ entry = EmptyVector
    /\ pc = "idle"
    /\ frame_size = 0
    /\ total_received = 0
    /\ header_frame_size = ZeroWord
    /\ last = [op |-> "none", ret |-> TRUE]
    /\ os = OsInit
    /\ wire = <<>>
    /\ peerClosed = FALSE
    /\ sent = 0
    /\ rx = <<>>
    /\ receives = 0
    /\ dgrams = <<>>

\* the peer writes, up to a shorter stream
PeerWriteHeader == PeerWrite /\ sent' <= MaxHeaderStream

\* connections and the frames read on them
NextHeader ==
    \/ TcpConnect
    \/ TcpReceiveFrame
    \/ TcpRecv
    \/ PeerWriteHeader

SpecHeader == InitHeader /\ [][NextHeader]_vars

-----------------------------------------------------------------------------
(* Vocabulary of the properties *)

IsPrefix(s, t) == Len(s) <= Len(t) /\ SubSeq(t, 1, Len(s)) = s

RECURSIVE Flatten(_)
Flatten(ss) == IF ss = <<>> THEN <<>> ELSE Head(ss) \o Flatten(Tail(ss))

\* header bytes a call of TcpReceiver::receiveFrame reads before the payload
HeaderLen == IF config.has_header /\ config.header_size > 0 THEN config.header_size ELSE 0

\* the little-endian unsigned value of four header bytes, saturated at 2^31 - 1
DeclaredLength(h) ==
    IF h[4] >= 128 THEN 2147483647
    ELSE h[1] + 256 * (h[2] + 256 * (h[3] + 256 * h[4]))

\* the frame length prescribed for a call that received the bytes s: the declared
\* length when it lies strictly between 0 and 100000000, the configured one otherwise
PrescribedLength(s) ==
    IF HeaderLen = 0 THEN ConfigFrameSize(config)
    ELSE LET v == DeclaredLength(SubSeq(s, 1, 4))
         IN  IF 0 < v /\ v < 100000000 THEN v ELSE ConfigFrameSize(config)

TcpSuccess ==
    config.protocol = "TCP" /\ pc = "idle" /\ last = Returned("receiveFrame", TRUE)

UdpSuccess ==
    config.protocol = "UDP" /\ pc = "idle" /\ last = Returned("receiveFrame", TRUE)

NotConnected == IF config.protocol = "TCP" THEN ~tcp.connected_ ELSE ~udp.bound_

-----------------------------------------------------------------------------
(* C1 *)

\* what a successful TcpReceiver::receiveFrame leaves: a buffer of the effective
\* length that holds, in order, the bytes the call received after the header; when
\* no header is configured these are the stream bytes that precede the unread ones
C1_Delivered ==
    TcpSuccess =>
        /\ Len(rx) >= HeaderLen
        /\ buffer.size = PrescribedLength(rx)
        /\ Len(rx) = HeaderLen + buffer.size
        /\ Contents(buffer) = SubSeq(rx, HeaderLen + 1, Len(rx))
        /\ ~buffer.overrun
        /\ HeaderLen = 0 =>
              Contents(buffer) = [i \in 1..buffer.size |->
                                     PayloadByte(sent - Len(wire) - buffer.size + i - 1)]

\* on one connection, the bytes a call has received followed by the unread bytes
\* only ever grow at the end: every recv takes the front of the unread bytes, and a
\* call starts where the call before it stopped
C1_NextBytes ==
    (tcp.connected_ /\ tcp'.connected_ /\ tcp'.socket_ = tcp.socket_) =>
        IsPrefix(IF pc = "idle" THEN wire ELSE rx \o wire,
                 IF pc = "idle" /\ pc' = "idle" THEN wire' ELSE rx' \o wire')

\* C1: a successful TcpReceiver::receiveFrame delivers a buffer of exactly the
\* effective frame length holding the next that-many bytes of the stream in order,
\* however recv splits them, and successive calls deliver consecutive segments.
C1_ExactRead == []C1_Delivered /\ [][C1_NextBytes]_vars

\* the second frame of four bytes of a connection without header has been delivered
C1_Witness ==
    /\ TcpSuccess /\ ~config.has_header
    /\ tcp.total_frames_received_ = 2
    /\ buffer.size = 4
    /\ Contents(buffer) = <<PayloadByte(sent - Len(wire) - 4), PayloadByte(sent - Len(wire) - 3),
                            PayloadByte(sent - Len(wire) - 2), PayloadByte(sent - Len(wire) - 1)>>

-----------------------------------------------------------------------------
(* C2 *)

\* with the header enabled: the header is read in full before anything else, and
\* from then on the call reads, and on success delivers, the prescribed length
C2_Length ==
    (config.protocol = "TCP" /\ HeaderLen > 0) =>
        /\ pc = "header" => Len(rx) < HeaderLen
        /\ pc = "payload" =>
              /\ Len(rx) >= HeaderLen
              /\ frame_size = PrescribedLength(rx)
              /\ buffer.size = frame_size
        /\ TcpSuccess => Len(rx) >= HeaderLen /\ buffer.size = PrescribedLength(rx)

\* the step that completes the header returns no error: the call goes on to the
\* payload (or is complete when the length is 0)
C2_NoError ==
    (config.protocol = "TCP" /\ pc = "header" /\ Len(rx') = HeaderLen) =>
        /\ tcp'.connected_
        /\ \/ pc' = "payload" /\ last' = last
           \/ pc' = "idle" /\ last' = Returned("receiveFrame", TRUE)

\* C2: with the header enabled the declared length is used iff it is > 0 and
\* < 100000000; 0 and 100000000 or more make the call read the configured frame
\* size; the header value never makes the call return an error.
C2_HeaderClamp == []C2_Length /\ [][C2_NoError]_vars

\* a frame whose header declared 100000000 was delivered with the configured size
C2_Witness ==
    /\ TcpSuccess /\ config.has_header
    /\ SubSeq(rx, 1, 4) = LittleEndian(HEADER_SANITY_LIMIT, 4)
    /\ buffer.size = ConfigFrameSize(config)
    /\ buffer.size > 0

-----------------------------------------------------------------------------
(* C3 *)

\* C3: a bound UdpReceiver::receiveFrame is in flight exactly while the datagrams
\* of the call amount to less than a frame, its buffer holding them in arrival
\* order; it returns success as soon as they reach a frame, with a buffer of
\* frameSize bytes equal to their concatenation cut at frameSize, the cut falling in
\* the last datagram.
C3_Reassembly ==
    /\ (config.protocol = "UDP" /\ pc = "recvfrom") =>
          /\ frame_size = ConfigFrameSize(config)
          /\ buffer.size = frame_size
          /\ Len(rx) < frame_size
          /\ udp.accumulated_bytes_ = Len(rx)
          /\ SubSeq(Contents(buffer), 1, Len(rx)) = rx
          /\ ~buffer.overrun
    /\ UdpSuccess =>
          LET fs == ConfigFrameSize(config)
          IN  /\ buffer.size = fs
              /\ Len(rx) >= fs
              /\ Contents(buffer) = SubSeq(rx, 1, fs)
              /\ ~buffer.overrun
              /\ udp.accumulated_bytes_ = fs
              /\ \E j \in 0..Len(dgrams) :
                    /\ rx = Flatten(SubSeq(dgrams, Len(dgrams) - j + 1, Len(dgrams)))
                    /\ j > 0 => Len(rx) - Len(dgrams[Len(dgrams)]) < fs

\* a frame of four bytes came in two datagrams of three bytes: two bytes dropped
C3_Witness ==
    /\ UdpSuccess
    /\ buffer.size = 4
    /\ Len(rx) = 6
    /\ Len(dgrams[Len(dgrams)]) = 3
    /\ Contents(buffer) = SubSeq(rx, 1, 4)

-----------------------------------------------------------------------------
(* C4 *)

\* C4: the k-th frame that successive successful UdpReceiver::receiveFrame calls
\* return is bytes [k*frameSize, (k+1)*frameSize) of the concatenation of all
\* datagram payloads received since bind (k counted from 0).
C4_ConsecutiveFrames ==
    UdpSuccess =>
        LET fs == ConfigFrameSize(config)
            k == udp.total_frames_received_ - 1
            all == Flatten(dgrams)
        IN  /\ Len(all) >= (k + 1) * fs
            /\ Contents(buffer) = SubSeq(all, k * fs + 1, (k + 1) * fs)

-----------------------------------------------------------------------------
(* C5 *)

\* a step of receiveFrame taken from outside a call
ReceiveFrameCalled == alive /\ pc = "idle" /\ (pc' # "idle" \/ last'.op = "receiveFrame")

C5_NoEffect ==
    (ReceiveFrameCalled /\ NotConnected) =>
        /\ last' = Returned("receiveFrame", FALSE)
        /\ pc' = "idle"
        /\ UNCHANGED <<tcp, udp, buffer, os, wire, peerClosed, sent, rx, dgrams>>

\* C5: receiveFrame called while the receiver is not connected/bound returns
\* failure without a receive on a socket and leaves the counters, the connection
\* state and the caller's buffer unchanged.
C5_RejectedWhenDisconnected == [][C5_NoEffect]_vars

\* receiveFrame was refused after a disconnect() that followed a delivered frame
C5_Witness ==
    /\ config.protocol = "TCP"
    /\ last = Returned("receiveFrame", FALSE)
    /\ tcp.socket_ = INVALID_SOCK
    /\ tcp.total_frames_received_ >= 1
    /\ buffer.size > 0

-----------------------------------------------------------------------------
(* C6 *)

\* no handle is closed twice, and disconnect() and the destructor leave the
\* receiver disconnected with no socket
C6_Released ==
    /\ \A h \in DOMAIN os.closes : os.closes[h] <= 1
    /\ last.op \in {"disconnect", "destroy"} =>
          /\ tcp.socket_ = INVALID_SOCK /\ ~tcp.connected_
          /\ udp.socket_ = INVALID_SOCK /\ ~udp.bound_ /\ udp.accumulated_bytes_ = 0

\* a disconnect() that follows a disconnect() changes nothing, and a destructor that
\* follows a disconnect() closes nothing
C6_Second ==
    /\ (last.op = "disconnect" /\ last'.op = "disconnect") => UNCHANGED vars
    /\ (last.op = "disconnect" /\ last'.op = "destroy") => UNCHANGED <<tcp, udp, os>>

\* C6: disconnect() is idempotent for both receivers: called twice in a row, before
\* any connect(), or from the destructor after a disconnect(), it never closes a
\* handle that is already closed, always leaves the receiver disconnected with no
\* socket, and the second call changes no state.
C6_Idempotent == []C6_Released /\ [][C6_Second]_vars

\* a receiver destroyed after two connections, each socket closed once
C6_Witness ==
    /\ ~alive
    /\ os.created = 2
    /\ os.closes[1] = 1 /\ os.closes[2] = 1
    /\ os.open = {}

-----------------------------------------------------------------------------
(* C7 *)

Conn == IF config.protocol = "TCP" THEN tcp.connected_ ELSE udp.bound_

HeldSocket == IF config.protocol = "TCP" THEN tcp.socket_ ELSE udp.socket_

\* Connected/Bound holds an open socket, Disconnected/Unbound holds none
C7_States == IF Conn THEN HeldSocket \in os.open ELSE HeldSocket \notin os.open

C7_Transitions ==
    /\ (~Conn /\ Conn') => last' = Returned("connect", TRUE)
    /\ (Conn /\ ~Conn') =>
          \/ last' = Returned("receiveFrame", FALSE)
          \/ last'.op \in {"disconnect", "destroy"}
    /\ (pc # "idle" /\ last' = Returned("receiveFrame", TRUE)) => Conn' = Conn
    /\ (pc = "idle" /\ last' = Returned("connect", FALSE)) => Conn' = Conn

\* C7: each receiver has exactly the states Disconnected/Unbound and
\* Connected/Bound; isConnected() becomes true only through a successful connect(),
\* false only through a failed receiveFrame or disconnect(); a successful receiveFrame
\* and a failed connect() never change it; a Disconnected receiver holds no open socket.
C7_TwoStates == []C7_States /\ [][C7_Transitions]_vars

-----------------------------------------------------------------------------
(* C8 *)

C8_Failed ==
    (alive /\ pc = "idle" /\ last' = Returned("connect", FALSE)) =>
        /\ ~Conn'
        /\ HeldSocket' = INVALID_SOCK
        /\ os'.open = os.open
        /\ os'.created > os.created => os'.closes[os'.created] = 1
        /\ tcp'.total_bytes_received_ = tcp.total_bytes_received_
        /\ tcp'.total_frames_received_ = tcp.total_frames_received_
        /\ udp'.total_bytes_received_ = udp.total_bytes_received_
        /\ udp'.total_frames_received_ = udp.total_frames_received_

\* C8: a connect() that fails at any step returns failure, leaves the receiver
\* disconnected/unbound, has closed any socket it created, and does not reset the
\* counters.
C8_FailedConnect == [][C8_Failed]_vars

\* connect() failed after it had created the second socket; a frame stays counted
C8_Witness ==
    /\ config.protocol = "TCP"
    /\ last = Returned("connect", FALSE)
    /\ os.created = 2 /\ os.closes[2] = 1 /\ 2 \notin os.open
    /\ tcp.total_frames_received_ > 0

-----------------------------------------------------------------------------
(* C9 *)

C9_NoOp ==
    ((TcpConnect \/ UdpConnect) /\ Conn) =>
        /\ last' = Returned("connect", TRUE)
        /\ UNCHANGED <<tcp, udp, os, buffer, pc, wire, peerClosed, sent, rx, dgrams>>

\* C9: connect() on a connected/bound receiver returns success and is a no-op: no
\* socket is created, the handle is kept, the counters and the accumulation state
\* are unchanged.
C9_ConnectWhenConnected == [][C9_NoOp]_vars

\* connect() returned success on a receiver whose frame counter it did not reset
C9_Witness ==
    /\ config.protocol = "TCP"
    /\ last = Returned("connect", TRUE)
    /\ tcp.connected_
    /\ tcp.total_frames_received_ > 0

-----------------------------------------------------------------------------
(* C10 *)

\* payload bytes of the frame the call in flight has read
Partial == IF pc = "payload" THEN total_received ELSE udp.accumulated_bytes_

PartialBytes == IF pc = "payload" THEN SubSeq(rx, HeaderLen + 1, Len(rx)) ELSE rx

\* the step in which a zero-length or error receive aborts a call that has read
\* part of the frame
Aborted ==
    /\ pc \in {"payload", "recvfrom"}
    /\ Partial > 0
    /\ pc' = "idle"
    /\ last' = Returned("receiveFrame", FALSE)

\* C10 as claimed: an aborted receiveFrame returns failure and leaves the caller's
\* buffer as the call found it, with no byte of the aborted frame in it.
C10_BufferUntouched == [][Aborted => buffer' = entry]_vars

C10_Left ==
    Aborted =>
        /\ ~Conn'
        /\ tcp'.total_frames_received_ = tcp.total_frames_received_
        /\ udp'.total_frames_received_ = udp.total_frames_received_
        /\ buffer'.size = frame_size
        /\ Len(PartialBytes) = Partial
        /\ \A i \in 1..Partial : ByteAt(buffer', i - 1) = PartialBytes[i]
        /\ \A i \in (Partial + 1)..Len(buffer'.data) :
              i <= entry.size /\ ByteAt(buffer', i - 1) = ByteAt(entry, i - 1)
        /\ \A i \in (Partial + 1)..Min(Len(entry.data), frame_size) :
              ByteAt(buffer', i - 1) = ByteAt(entry, i - 1)

\* C10: an aborted receiveFrame returns failure, marks the receiver disconnected
\* and counts no frame; the caller's buffer has been resized to the frame length
\* and holds the bytes of the aborted frame read so far as its prefix, the rest being
\* what the resize left.
C10_PartialLeftInBuffer == [][C10_Left]_vars

\* a call for a frame of four bytes was aborted after two: they are in the buffer
C10_Witness ==
    /\ config.protocol = "TCP" /\ ~config.has_header
    /\ last = Returned("receiveFrame", FALSE)
    /\ ~tcp.connected_ /\ tcp.socket_ # INVALID_SOCK
    /\ buffer.size = 4
    /\ sent >= 2
    /\ buffer.data = <<PayloadByte(sent - 2), PayloadByte(sent - 1)>>

-----------------------------------------------------------------------------
\* the members of the receiver in use, and of the second object
Owned == IF config.protocol = "TCP" THEN tcp ELSE udp

OtherOwned == IF config.protocol = "TCP" THEN other.tcp ELSE other.udp

OtherConn == IF config.protocol = "TCP" THEN other.tcp.connected_ ELSE other.udp.bound_

MoveToOther == TcpMoveConstruct \/ TcpMoveAssign \/ UdpMoveConstruct \/ UdpMoveAssign

MoveFromOther == TcpMoveAssignBack \/ UdpMoveAssignBack

\* no handle is held by both objects, a held handle is open, none is closed twice
C11_Exclusive ==
    /\ HeldSocket # INVALID_SOCK => HeldSocket # OtherOwned.socket_
    /\ HeldSocket # INVALID_SOCK => HeldSocket \in os.open
    /\ OtherOwned.socket_ # INVALID_SOCK => OtherOwned.socket_ \in os.open
    /\ \A h \in DOMAIN os.closes : os.closes[h] <= 1

\* what one move, and the teardown of a moved-from object, do
C11_Moves ==
    /\ MoveToOther =>
          /\ HeldSocket' = INVALID_SOCK /\ ~Conn'
          /\ OtherOwned' = Owned
          /\ os'.open = os.open \ {OtherOwned.socket_}
          /\ \A h \in DOMAIN os.closes :
                os'.closes[h] = os.closes[h] + (IF h = OtherOwned.socket_ THEN 1 ELSE 0)
    /\ MoveFromOther =>
          /\ OtherOwned'.socket_ = INVALID_SOCK /\ ~OtherConn'
          /\ Owned' = OtherOwned
          /\ os'.open = os.open \ {HeldSocket}
          /\ \A h \in DOMAIN os.closes :
                os'.closes[h] = os.closes[h] + (IF h = HeldSocket THEN 1 ELSE 0)
    /\ (last.op \in {"move_construct", "move_assign"}
          /\ last'.op \in {"disconnect", "destroy"}) => os' = os
    /\ (last.op = "move_assign_back"
          /\ last'.op \in {"other_disconnect", "other_destroy"}) => os' = os

\* C11: socket ownership is exclusive under moves: a move leaves the source with no
\* socket and disconnected, so that its disconnect() or destructor closes nothing,
\* gives the destination the source's former socket, connection state and
\* counters, a move assignment first closes the socket the destination held, and
\* over any sequence of moves and teardowns no handle is held by two receivers or
\* closed twice.
C11_ExclusiveOwnership == []C11_Exclusive /\ [][C11_Moves]_vars

\* a receiver that connected again after its socket was moved away takes the
\* socket and the counters back: its second socket is closed once, the first never
C11_Witness ==
    /\ last = Returned("move_assign_back", TRUE)
    /\ HeldSocket = 1 /\ Conn
    /\ Owned.total_frames_received_ = 2 /\ Owned.total_bytes_received_ = 4
    /\ OtherOwned.socket_ = INVALID_SOCK /\ ~OtherConn
    /\ os.open = {1}
    /\ os.closes[1] = 0 /\ os.closes[2] = 1

-----------------------------------------------------------------------------
\* C12: when disconnect() runs in another execution context while a receiveFrame
\* call is in flight, the receive in flight fails, the call returns failure
\* and the receiver ends disconnected/unbound: a receiveFrame call never returns
\* success once the socket it reads has been closed.
C12_InFlightFails ==
    [][(pc # "idle" /\ pc' = "idle" /\ HeldSocket' \notin os'.open)
          => (last' = Returned("receiveFrame", FALSE) /\ ~Conn')]_vars

-----------------------------------------------------------------------------
(* FrameUnpacker *)

\* the pixels of the events of one polarity in the batch
PixelsOf(polarity) ==
    {[x |-> unpacker.events[k].x, y |-> unpacker.events[k].y] :
        k \in {j \in 1..Len(unpacker.events) : unpacker.events[j].polarity = polarity}}

\* the number of events of one polarity in the batch
CountOf(polarity) ==
    Cardinality({k \in 1..Len(unpacker.events) : unpacker.events[k].polarity = polarity})

\* the number of set bits of a buffer
SetBits(bytes) ==
    Cardinality({ib \in (1..Len(bytes)) \X (0..7) : BitSet(bytes[ib[1]], ib[2])})

\* (byte index, bit index) -> (x, y) maps the bits of a channel one to one onto
\* the grid
C13_Bijection ==
    LET places == (0..(bytes_per_channel(config) - 1)) \X (0..7)
        pixel(ib) == Coordinate(config, ib[1], PixelOffset(config, ib[2]))
    IN  /\ \A ib \in places : pixel(ib) \in Grid(config)
        /\ \A ib \in places : \A jc \in places : pixel(ib) = pixel(jc) => ib = jc
        /\ \A px \in Grid(config) : \E ib \in places : pixel(ib) = px

\* the frame that encodes the pixels P and N unpacks to P and N, each pixel once
C13_SameSets ==
    \A P \in PixelSets(config) \cup FewPixelSets(config) :
        \A N \in PixelSets(config) \cup FewPixelSets(config) :
            (unpacker.called /\ unpacker.frame_data = Encode(config, P, N)) =>
                /\ PixelsOf(TRUE) = P /\ CountOf(TRUE) = Cardinality(P)
                /\ PixelsOf(FALSE) = N /\ CountOf(FALSE) = Cardinality(N)
                /\ PixelsOf(TRUE) \cup PixelsOf(FALSE) \subseteq Grid(config)

\* C13: for every geometry with width*height divisible by 8 and every combination
\* of msbFirst, positiveFirst and rowMajor the decoder maps (byte index, bit index)
\* of a channel one to one onto the width x height grid: a set of pixels encoded
\* under the same flags unpacks to exactly that set per polarity, with no
\* duplicate, no omission and every coordinate inside the grid.
C13_RoundTrip == C13_Bijection /\ C13_SameSets

\* column-major, most significant bit first, negative channel first: one pixel of
\* each polarity comes back
C13_Witness ==
    /\ unpacker.called
    /\ config.width = 4 /\ config.height = 4
    /\ config.msb_first /\ ~config.row_major /\ ~config.positive_first
    /\ unpacker.frame_data = Encode(config, {[x |-> 1, y |-> 2]}, {[x |-> 3, y |-> 3]})
    /\ unpacker.frame_data = <<0, 1, 2, 0>>
    /\ PixelsOf(TRUE) = {[x |-> 1, y |-> 2]}
    /\ PixelsOf(FALSE) = {[x |-> 3, y |-> 3]}
    /\ Len(unpacker.events) = 2

\* C14 as stated: for any buffer passed to unpack the count returned is the
\* number of set bits across the buffer, and the number of events in the batch
\* after the call.
C14_CountIsSetBits ==
    unpacker.called =>
        /\ unpacker.ret = SetBits(unpacker.frame_data)
        /\ unpacker.ret = Len(unpacker.events)

\* C14: for a buffer of at least the frame's length the count returned is the
\* number of set bits in its first 2 * width*height/8 bytes, for a shorter buffer
\* it is zero, and it always is the number of events in the batch after the call:
\* the batch is cleared first.
C14_CountIsSetBitsOfFrame ==
    unpacker.called =>
        /\ unpacker.ret =
              IF Len(unpacker.frame_data) < ConfigFrameSize(config)
              THEN 0
              ELSE SetBits(SubSeq(unpacker.frame_data, 1, ConfigFrameSize(config)))
        /\ unpacker.ret = Len(unpacker.events)

\* a call given the batch of the frame before, on a buffer with one byte more
\* than the frame: the batch holds this frame's events only
C14_Witness ==
    /\ unpacker.called
    /\ unpacker.stale
    /\ Len(unpacker.frame_data) = ConfigFrameSize(config) + 1
    /\ unpacker.ret = 8 * ConfigFrameSize(config)
    /\ Len(unpacker.events) = unpacker.ret

\* C15: unpack given a buffer shorter than 2 * width*height/8 bytes returns zero,
\* leaves the batch empty and reads no byte at or beyond the buffer's length,
\* whatever bits the buffer holds.
C15_ShortAborts ==
    (unpacker.called /\ Len(unpacker.frame_data) < ConfigFrameSize(config)) =>
        /\ unpacker.ret = 0
        /\ unpacker.events = <<>>
        /\ \A i \in unpacker.reads : i < Len(unpacker.frame_data)

\* a buffer one byte short, every bit set, handed over with a batch that held
\* events
C15_Witness ==
    /\ unpacker.called
    /\ Len(unpacker.frame_data) = ConfigFrameSize(config) - 1
    /\ SetBits(unpacker.frame_data) = 8 * Len(unpacker.frame_data)
    /\ unpacker.stale
    /\ unpacker.ret = 0 /\ unpacker.events = <<>>

\* C16: the batch of one frame is ordered: the events of the channel that comes
\* first in the buffer (positive if positiveFirst) precede those of the other,
\* each channel's events carry its polarity and come in increasing scan order
\* (row-major or column-major), and every event carries the time stamp
\* frameNumber * frameIntervalMicroseconds.
C16_Ordered ==
    LET events == unpacker.events
        n == bytes_per_channel(config)
    IN  unpacker.called =>
          /\ \A k \in 1..Len(events) :
                events[k].timestamp = unpacker.frame_number * config.frame_interval_us
          /\ \A j \in 1..Len(events) : \A k \in 1..Len(events) :
                j < k =>
                   IF events[j].polarity = events[k].polarity
                   THEN ScanIndex(config, events[j]) < ScanIndex(config, events[k])
                   ELSE events[j].polarity = config.positive_first
          /\ Len(unpacker.frame_data) >= 2 * n =>
                /\ CountOf(config.positive_first)
                      = SetBits(SubSeq(unpacker.frame_data, 1, n))
                /\ CountOf(~config.positive_first)
                      = SetBits(SubSeq(unpacker.frame_data, n + 1, 2 * n))

\* a full frame, negative channel first, column-major on a 4 x 2 grid, frame 3
C16_Witness ==
    /\ unpacker.called
    /\ config.width = 4 /\ config.height = 2
    /\ ~config.row_major /\ ~config.positive_first
    /\ unpacker.frame_number = 3
    /\ Len(unpacker.events) = 16
    /\ unpacker.events[1] = [timestamp |-> 600, x |-> 0, y |-> 0, polarity |-> FALSE]
    /\ unpacker.events[2] = [timestamp |-> 600, x |-> 0, y |-> 1, polarity |-> FALSE]
    /\ unpacker.events[16] = [timestamp |-> 600, x |-> 3, y |-> 1, polarity |-> TRUE]

-----------------------------------------------------------------------------
(* Counters *)

Frames ==
    IF config.protocol = "TCP" THEN tcp.total_frames_received_
    ELSE udp.total_frames_received_

Bytes ==
    IF config.protocol = "TCP" THEN tcp.total_bytes_received_
    ELSE udp.total_bytes_received_

ReceiveStep == TcpReceiveFrame \/ TcpRecv \/ UdpReceiveFrame \/ UdpRecv

\* the step with which a receiveFrame call returns success
ReceiveSucceeds ==
    ReceiveStep /\ pc' = "idle" /\ last' = Returned("receiveFrame", TRUE)

\* C17: the frame counter of each receiver is the number of receiveFrame calls that
\* returned success since the last successful connect(): a successful connect()
\* sets it to zero, a successful receiveFrame adds exactly one, and a failed
\* receiveFrame, a receiveFrame still in flight, disconnect() and a connect() that
\* is a no-op or fails leave it unchanged.
C17_FrameCounter ==
    [][ /\ ReceiveSucceeds => Frames' = Frames + 1
        /\ (ReceiveStep /\ ~ReceiveSucceeds) => Frames' = Frames
        /\ (TcpDisconnect \/ UdpDisconnect) => Frames' = Frames
        /\ (TcpConnect \/ UdpConnect) =>
              Frames' = IF ~Conn /\ Conn' THEN 0 ELSE Frames ]_vars

\* two frames were counted, and the receive that failed after them changed nothing
C17_Witness ==
    /\ Frames = 2
    /\ last = Returned("receiveFrame", FALSE)
    /\ ~Conn

\* UdpReceiver: while the socket is held, the counter is the length of all
\* datagrams received on it
C18_Datagrams ==
    (config.protocol = "UDP" /\ udp.socket_ # INVALID_SOCK) =>
        udp.total_bytes_received_ = Len(Flatten(dgrams))

\* a step of either receiver adds to the counter exactly the bytes a receive
\* returned in it
C18_Step ==
    /\ (TcpRecv \/ UdpRecv) =>
          Bytes' = Bytes + (IF Len(rx') > Len(rx) THEN Len(rx') - Len(rx) ELSE 0)
    /\ (TcpReceiveFrame \/ UdpReceiveFrame \/ TcpDisconnect \/ UdpDisconnect) =>
          Bytes' = Bytes
    /\ (TcpConnect \/ UdpConnect) => Bytes' = IF ~Conn /\ Conn' THEN 0 ELSE Bytes

\* C18: the byte counter of each receiver is the sum of the lengths of all positive
\* receive results since the last successful connect(): UDP adds the full received
\* length of every datagram, the discarded tail included; TCP adds every chunk,
\* header bytes and the bytes of a frame that is later aborted included.
C18_ByteCounter == []C18_Datagrams /\ [][C18_Step]_vars

\* a datagram of three bytes completed a frame of two: three bytes are counted
C18_Witness ==
    /\ config.protocol = "UDP"
    /\ last = Returned("receiveFrame", TRUE)
    /\ buffer.size = 2
    /\ Len(dgrams) = 1 /\ Len(dgrams[1]) = 3
    /\ udp.total_bytes_received_ = 3
    /\ udp.total_frames_received_ = 1

\* C19: getFrameSize() of either receiver is the configured 2*(width*height/8) in
\* every state; a valid header override sets the length of the frame being read
\* only: the next receiveFrame starts again from the configured size.
C19_FrameSizeFixed ==
    LET configured == 2 * ((config.width * config.height) \div 8)
    IN  /\ getFrameSize = configured
        /\ pc \in {"header", "recvfrom"} => frame_size = configured
        /\ (pc = "payload" /\ ~config.has_header) => frame_size = configured

\* a frame of one byte was read on a header's word, and the call that follows
\* starts from the configured size
C19_Witness ==
    /\ config.has_header
    /\ pc = "header"
    /\ tcp.total_frames_received_ = 1
    /\ buffer.size = 1
    /\ frame_size = ConfigFrameSize(config)
    /\ frame_size # 1
    /\ getFrameSize = frame_size

-----------------------------------------------------------------------------
(* Header sizes *)

\* the little-endian unsigned value of the bytes h, saturated at 2^31 - 1
DeclaredValue(h) ==
    LET b(i) == IF i <= Len(h) THEN h[i] ELSE 0
    IN  IF b(4) >= 128 \/ \E i \in 5..Len(h) : h[i] # 0
        THEN 2147483647
        ELSE b(1) + 256 * (b(2) + 256 * (b(3) + 256 * b(4)))

\* C20: with the header enabled receiveFrame reads exactly headerSize bytes before
\* the payload, and the declared length it validates is the little-endian value
\* of exactly those bytes, for every headerSize: the header read stores no byte
\* outside the header variable and the value has no header byte dropped or added.
C20_ExactHeader ==
    (config.protocol = "TCP" /\ HeaderLen > 0) =>
        /\ Len(header_frame_size) <= 4
        /\ pc = "header" => Len(rx) < HeaderLen
        /\ pc = "payload" =>
              /\ Len(rx) >= HeaderLen
              /\ LET v == DeclaredValue(SubSeq(rx, 1, HeaderLen))
                 IN  frame_size = IF 0 < v /\ v < HEADER_SANITY_LIMIT
                                  THEN v ELSE ConfigFrameSize(config)

-----------------------------------------------------------------------------
(* Reconnecting *)

ConnectStep == TcpConnect \/ UdpConnect

\* a connect() on a receiver that is not connected calls socket(); when it
\* returns true the receiver holds the new socket and counts from zero
C21_FreshAttempt ==
    (ConnectStep /\ ~Conn) =>
        /\ last'.op = "connect"
        /\ IF last'.ret
           THEN /\ Conn'
                /\ os'.created = os.created + 1
                /\ HeldSocket' = os'.created
                /\ HeldSocket' \in os'.open
                /\ Frames' = 0
                /\ Bytes' = 0
                /\ config.protocol = "UDP" => udp'.accumulated_bytes_ = 0
           ELSE /\ ~Conn'
                /\ Frames' = Frames
                /\ Bytes' = Bytes

\* C21: after a receiveFrame failure or a disconnect() the receiver never
\* reconnects by itself: it stays disconnected until connect() is called; that
\* connect() is not treated as already connected but makes a fresh attempt, and
\* when the attempt succeeds the receiver is connected/bound with the byte
\* counter, the frame counter and (UDP) the accumulation count all zero.
C21_Reconnect ==
    [][ /\ (~Conn /\ Conn') => ConnectStep
        /\ C21_FreshAttempt ]_vars

\* a receiver that had received bytes, failed a receive and was connected again:
\* it holds the second socket and its counters are zero
C21_Witness ==
    /\ Conn
    /\ last = Returned("connect", TRUE)
    /\ os.created = 2
    /\ os.closes[1] = 0
    /\ HeldSocket = 2
    /\ sent > 0
    /\ Frames = 0
    /\ Bytes = 0

-----------------------------------------------------------------------------
(* Sockets created and not closed *)

\* the handles stored in the objects that exist
HeldHandles ==
    (IF alive THEN {HeldSocket} ELSE {})
    \cup (IF other.alive THEN {OtherOwned.socket_} ELSE {})

\* C22: no socket is leaked: in every reachable state every open socket that a
\* receiver created is the one stored in the handle of some receiver, at most one
\* per receiver, so that once the receivers are destroyed every socket ever
\* created is closed; connect() never overwrites a handle that is still open.
C22_NoLeak ==
    /\ os.open \subseteq HeldHandles
    /\ (~alive /\ ~other.alive) => os.open = {}

-----------------------------------------------------------------------------
(* Termination of receiveFrame *)

\* receiveFrame is in flight only while it waits in recv/recvfrom; every such
\* call returns
SpecReturns == Init /\ [][Next]_vars /\ WF_vars(TcpRecv) /\ WF_vars(UdpRecv)

RecvStep == TcpRecv \/ UdpRecv

\* the bytes accumulated by the read in progress, and the length it reads
Accumulated == IF config.protocol = "TCP" THEN total_received ELSE udp.accumulated_bytes_

Target == IF pc = "header" THEN config.header_size ELSE frame_size

\* header bytes a receiveFrame call of the receiver in use reads
HeaderReceives == IF config.protocol = "TCP" THEN HeaderLen ELSE 0

\* a call in flight has made no more receives than it has accumulated bytes, and
\* it is in flight only while bytes are missing
C23_Bound ==
    /\ pc = "header" => receives <= total_received /\ total_received < config.header_size
    /\ pc = "payload" =>
          receives <= HeaderReceives + total_received /\ total_received < frame_size
    /\ pc = "recvfrom" =>
          receives <= udp.accumulated_bytes_ /\ udp.accumulated_bytes_ < frame_size

\* one receive: a positive result strictly increases the accumulated count of the
\* read in progress, which ends exactly when the count reaches its length; a
\* non-positive result ends the call with failure; a call that returns has made
\* at most headerSize + N receives, N the frame length it was reading
C23_Progress ==
    RecvStep =>
        /\ receives' = receives + 1
        /\ IF Len(rx') > Len(rx)
           THEN LET got == Accumulated + (IF config.protocol = "TCP"
                                          THEN Len(rx') - Len(rx)
                                          ELSE Min(Len(rx') - Len(rx), Target - Accumulated))
                IN  /\ got > Accumulated
                    /\ got <= Target
                    /\ IF got < Target
                       THEN pc' = pc /\ Accumulated' = got
                       ELSE \/ pc' = "idle" /\ last'.op = "receiveFrame"
                            \/ pc = "header" /\ pc' = "payload" /\ total_received' = 0
           ELSE pc' = "idle" /\ last' = Returned("receiveFrame", FALSE)
        /\ pc' = "idle" =>
              receives' <= HeaderReceives + (IF pc = "header" THEN 0 ELSE frame_size)

\* a call on a connected receiver whose configured frame size is 0 returns success
\* at once
ReturnsWithoutReceive ==
    /\ pc' = "idle"
    /\ last' = Returned("receiveFrame", TRUE)
    /\ receives' = 0

C23_ZeroFrame ==
    ((TcpReceiveFrame \/ UdpReceiveFrame) /\ Conn /\ getFrameSize = 0) =>
        ReturnsWithoutReceive

\* with the header enabled the header is read first, also for a frame size of 0
C23_ZeroFrameHeaderless ==
    ((TcpReceiveFrame \/ UdpReceiveFrame) /\ Conn /\ getFrameSize = 0) =>
        IF HeaderReceives = 0 THEN ReturnsWithoutReceive
        ELSE pc' = "header" /\ receives' = 0 /\ last' = last

\* a call in flight returns
C23_Returns == (pc # "idle") ~> (pc = "idle")

\* C23: every receiveFrame call terminates provided each receive returns: every
\* positive receive result strictly increases the accumulated byte count and every
\* non-positive result ends the call, so a call for a frame of N bytes performs at
\* most N payload receives (plus at most headerSize header receives for TCP)
\* before it returns; with a configured frame size of 0 it returns success
\* without any receive.
C23_Terminates ==
    /\ []C23_Bound
    /\ [][C23_Progress /\ C23_ZeroFrame]_vars
    /\ C23_Returns

\* C23 as it holds: the same, where a configured frame size of 0 gives success
\* without any receive when no header is read (UDP, TCP without header); with
\* the header enabled TcpReceiver reads the header first.
C23_TerminatesHeaderRead ==
    /\ []C23_Bound
    /\ [][C23_Progress /\ C23_ZeroFrameHeaderless]_vars
    /\ C23_Returns

\* a call with a configured frame size of 0 read its header in four receives of
\* one byte and returned success with an empty frame
C23_Witness ==
    /\ TcpSuccess
    /\ HeaderLen = 4
    /\ getFrameSize = 0
    /\ receives = 4
    /\ buffer.size = 0
    /\ tcp.total_bytes_received_ = 4

-----------------------------------------------------------------------------
(* Bounds of the writes into the output buffer *)

\* payload bytes the receive of this step stored in the output buffer
Stored ==
    IF Len(rx') <= Len(rx) \/ pc = "header" THEN 0
    ELSE IF config.protocol = "TCP" THEN Len(rx') - Len(rx)
    ELSE Min(Len(rx') - Len(rx), frame_size - udp.accumulated_bytes_)

\* while a frame is read the buffer has the frame's length, the count is below
\* it, and no byte was ever stored outside the buffer
C24_InBounds ==
    /\ ~buffer.overrun
    /\ Len(buffer.data) <= buffer.size
    /\ pc = "payload" =>
          /\ buffer.size = frame_size
          /\ 0 <= total_received /\ total_received < frame_size
          /\ TcpRequest = frame_size - total_received
    /\ pc = "recvfrom" =>
          /\ buffer.size = frame_size
          /\ 0 <= udp.accumulated_bytes_ /\ udp.accumulated_bytes_ < frame_size
    /\ (config.protocol = "UDP" /\ pc = "idle" /\ udp.bound_) =>
          udp.accumulated_bytes_ <= buffer.size

\* one receive stores its bytes at the current offset and within the frame; the
\* call returns success exactly when the count reaches the frame length
C24_Write ==
    (RecvStep /\ pc # "header") =>
        /\ Accumulated + Stored <= frame_size
        /\ Stored <= (IF config.protocol = "TCP" THEN TcpRequest
                      ELSE frame_size - udp.accumulated_bytes_)
        /\ Stored > 0 =>
              /\ buffer'.size = frame_size
              /\ \A i \in 0..(Len(buffer.data) + Accumulated + Stored) :
                    ByteAt(buffer', i) =
                        IF Accumulated <= i /\ i < Accumulated + Stored
                        THEN rx'[Len(rx) + 1 + (i - Accumulated)]
                        ELSE ByteAt(buffer, i)
        /\ IF Accumulated + Stored = frame_size
           THEN pc' = "idle" /\ last' = Returned("receiveFrame", TRUE)
           ELSE \/ pc' = pc /\ Accumulated' = Accumulated + Stored
                \/ Stored = 0 /\ pc' = "idle" /\ last' = Returned("receiveFrame", FALSE)

\* a call that finds nothing to read succeeds with a count equal to the length 0
C24_Empty ==
    (ReceiveSucceeds /\ ~RecvStep) => buffer'.size = 0

\* C24: during any receiveFrame the accumulated byte count never exceeds the
\* target frame length and every write into the output buffer lies within
\* [0, frame length): UDP copies at most the bytes still needed at the current
\* offset, TCP never requests more than the remaining bytes, and the count equals
\* the frame length exactly when the call returns success.
C24_WritesInBounds == []C24_InBounds /\ [][C24_Write /\ C24_Empty]_vars

\* a frame of four bytes took two datagrams of three: of the second only the
\* one byte still needed was stored, at offset 3
C24_Witness ==
    /\ UdpSuccess
    /\ buffer.size = 4
    /\ udp.accumulated_bytes_ = 4
    /\ Len(rx) = 6
    /\ Contents(buffer) = SubSeq(rx, 1, 3) \o <<rx[4]>>
    /\ ~buffer.overrun

=============================================================================
